---- MODULE Spec2Model ----
(***************************************************************************)
(* Model of package exec of qiffang/k8sutils: a Client holding a          *)
(* ClientOpt, the permission probe CanExec and the exec invocation         *)
(* ExecPod.  The cluster's authorization API, the executor set-up and the  *)
(* executor's Stream call belong to external libraries; they appear here   *)
(* as nondeterministic outcomes of the calls the source makes.             *)
(***************************************************************************)
EXTENDS Naturals, Sequences, FiniteSets

\* ------------------------------------------------------------------ bounds
\* Largest caller-supplied timeout, in clock ticks.
MaxTimeout == 2
\* Upper limit on the repetitions a faulty (retrying) variant may perform.
MaxAttempts == 2

\* The session clock runs a little past the largest timeout.
MaxElapsed == MaxTimeout + 1

\* ------------------------------------------------------- program constants
\* context.WithTimeout(context.Background(), 10*time.Second)
CanExecTimeout == 10

\* ------------------------------------------------------------------ inputs
Namespaces == {"ns1", "ns2"}
PodNames == {"pod1", "pod2"}
ContainerNames == {"app"}
Configs == {"cfg"}
Contexts == {"ctx"}
Commands == {<<"ls">>, <<"sh", "-c">>}
NilStream == "nil"
Stdins == {NilStream, "stdin"}
Stdouts == {NilStream, "stdout"}
Stderrs == {NilStream, "stderr"}
Timeouts == 0..MaxTimeout
Reasons == {"", "RBAC: access denied"}

\* ------------------------------------------------------------------ errors
\* An error value: id identifies the error, msg is its text as a sequence of
\* pieces, unwrap is the chain of ids reached by repeated Unwrap().
Nil == [id |-> "nil", msg |-> <<>>, unwrap |-> <<>>]

LibErr(name) == [id |-> name, msg |-> <<name>>, unwrap |-> <<>>]

\* fmt.Errorf(prefix + "%w" + suffix...): a new error whose text embeds the
\* wrapped error's text and whose Unwrap chain starts with the wrapped error.
Errorf(prefix, inner, suffix) ==
  [id |-> "fmt.wrapError",
   msg |-> prefix \o inner.msg \o suffix,
   unwrap |-> <<inner.id>> \o inner.unwrap]

\* errors.Is(err, target) for the comparable errors of the model.
Is(err, target) ==
  \/ err = target
  \/ \E i \in 1..Len(err.unwrap) : err.unwrap[i] = target.id

\* strings.Contains(err.Error(), piece)
Contains(err, piece) == \E i \in 1..Len(err.msg) : err.msg[i] = piece

deniedCreateExecErr == LibErr("no permissions to create exec subresource")

QueryErrs == {LibErr("context deadline exceeded"), LibErr("connection refused")}
TLSErr == LibErr("tls: bad certificate")
WrapperErr == LibErr("wrappers: bad auth config")
SPDYErr == LibErr("spdy: bad url")
StreamErr == LibErr("command terminated with exit code 1")
ConnErr == LibErr("connection lost")

NoResponse == [err |-> Nil, allowed |-> FALSE, reason |-> ""]
NoSetup == [tls |-> Nil, wrappers |-> Nil, spdy |-> Nil]
NoCall == [command |-> <<>>, stdin |-> NilStream, stdout |-> NilStream,
           stderr |-> NilStream, tty |-> FALSE, timeout |-> 0]
NoReview == [Namespace |-> "", Verb |-> "", Group |-> "", Resource |-> "",
             Subresource |-> "", Name |-> "", ctxTimeout |-> 0]
NoRequest == [verb |-> "", resource |-> "", namespace |-> "", name |-> "",
              subresource |-> "", timeout |-> 0, container |-> "",
              command |-> <<>>, stdin |-> FALSE, stdout |-> FALSE,
              stderr |-> FALSE, tty |-> FALSE]
NoStreamOptions == [Stdin |-> NilStream, Stdout |-> NilStream,
                    Stderr |-> NilStream, Tty |-> FALSE]
NoExecutor == [config |-> "", method |-> "", url |-> NoRequest]

VARIABLES
  opt,            \* the client's ClientOpt
  created,        \* the ClientOpt handed to NewClient
  pc,             \* where the caller's current call stands
  op,             \* the operation called last: "none", "CanExec", "ExecPod"
  call,           \* the arguments of the last ExecPod call
  review,         \* the SelfSubjectAccessReview submitted last
  response,       \* the authorization API's answer to it
  execRequest,    \* the exec request built last
  executor,       \* what newExecutor was called with
  setup,          \* outcomes of the executor set-up steps
  streamOptions,  \* the StreamOptions handed to Stream
  streamErr,      \* what Stream returned
  streamDone,     \* whether Stream has returned
  sessionEnds,    \* whether the remote command terminates by itself
  elapsed,        \* time spent in Stream
  ret,            \* the error the last call returned
  nQuery,         \* access reviews submitted by the last call
  nSetup,         \* executor set-ups performed by the last call
  nStream,        \* Stream invocations made by the last call
  lastProbe       \* result of the latest finished CanExec

vars == <<opt, created, pc, op, call, review, response, execRequest, executor,
          setup, streamOptions, streamErr, streamDone, sessionEnds, elapsed,
          ret, nQuery, nSetup, nStream, lastProbe>>

ClientOpts ==
  [K8sConfig : Configs, PodName : PodNames, ContainerName : ContainerNames,
   Namespace : Namespaces, CurrentContext : Contexts]

\* NewClient: the client keeps the ClientOpt it was given.
NewClient(o) == o

Init ==
  /\ created \in ClientOpts
  /\ opt = NewClient(created)
  /\ pc = "idle"
  /\ op = "none"
  /\ call = NoCall
  /\ review = NoReview
  /\ response = NoResponse
  /\ execRequest = NoRequest
  /\ executor = NoExecutor
  /\ setup = NoSetup
  /\ streamOptions = NoStreamOptions
  /\ streamErr = Nil
  /\ streamDone = FALSE
  /\ sessionEnds = FALSE
  /\ elapsed = 0
  /\ ret = Nil
  /\ nQuery = 0
  /\ nSetup = 0
  /\ nStream = 0
  /\ lastProbe = "none"

\* ------------------------------------------------------------ CanExec
\* The SelfSubjectAccessReview built by CanExec.
BuildReview(c) ==
  [Namespace |-> c.Namespace,
   Verb |-> "create",
   Group |-> "",
   Resource |-> "pods",
   Subresource |-> "exec",
   Name |-> "",
   ctxTimeout |-> CanExecTimeout]

\* Faulty variants of CanExec's result: an unreported denial, a dropped
\* Reason, a wrapped query error.
CanExecResultSilentDenial(resp) ==
  IF resp.err # Nil THEN resp.err
  ELSE IF ~resp.allowed
       THEN IF resp.reason # ""
            THEN Errorf(<<>>, deniedCreateExecErr, <<". reason: ", resp.reason>>)
            ELSE Nil
       ELSE Nil

CanExecResultDropsReason(resp) ==
  IF resp.err # Nil THEN resp.err
  ELSE IF ~resp.allowed THEN deniedCreateExecErr
       ELSE Nil

CanExecResultWrapsQueryErr(resp) ==
  IF resp.err # Nil THEN Errorf(<<"failed to check permissions: ">>, resp.err, <<>>)
  ELSE IF ~resp.allowed
       THEN IF resp.reason # ""
            THEN Errorf(<<>>, deniedCreateExecErr, <<". reason: ", resp.reason>>)
            ELSE deniedCreateExecErr
       ELSE Nil

\* What CanExec returns for the answer of the authorization API.
CanExecResult(resp) ==
  IF resp.err # Nil THEN resp.err
  ELSE IF ~resp.allowed
       THEN IF resp.reason # ""
            THEN Errorf(<<>>, deniedCreateExecErr, <<". reason: ", resp.reason>>)
            ELSE deniedCreateExecErr
       ELSE Nil

\* CanExec up to and including the submission of the access review.
CanExecCall ==
  /\ pc = "idle"
  /\ op' = "CanExec"
  /\ review' = BuildReview(opt)
  /\ nQuery' = 1
  /\ nSetup' = 0
  /\ nStream' = 0
  /\ response' = NoResponse
  /\ ret' = Nil
  /\ call' = NoCall
  /\ execRequest' = NoRequest
  /\ executor' = NoExecutor
  /\ setup' = NoSetup
  /\ streamOptions' = NoStreamOptions
  /\ streamErr' = Nil
  /\ streamDone' = FALSE
  /\ sessionEnds' = FALSE
  /\ elapsed' = 0
  /\ pc' = "Create"
  /\ UNCHANGED <<opt, created, lastProbe>>

\* The answers the authorization API can give.
Responses ==
  [err : QueryErrs \cup {Nil}, allowed : BOOLEAN, reason : Reasons]

\* CanExec from the answer of the authorization API to its return.
CanExecReturn ==
  /\ pc = "Create"
  /\ \E resp \in Responses :
       /\ response' = resp
       /\ ret' = CanExecResult(resp)
       /\ lastProbe' = IF CanExecResult(resp) = Nil THEN "ok" ELSE "failed"
  /\ pc' = "idle"
  /\ UNCHANGED <<opt, created, op, call, review, execRequest, executor, setup,
                 streamOptions, streamErr, streamDone, sessionEnds, elapsed,
                 nQuery, nSetup, nStream>>

\* ------------------------------------------------------------ ExecPod
\* Faulty variant: the request is addressed with the wrong fields.
BuildExecRequestSwapped(c, a) ==
  [verb |-> "POST",
   resource |-> "pods",
   namespace |-> c.Namespace,
   name |-> c.ContainerName,
   subresource |-> "exec",
   timeout |-> a.timeout,
   container |-> c.PodName,
   command |-> a.command,
   stdin |-> a.stdin # NilStream,
   stdout |-> a.stdout # NilStream,
   stderr |-> a.stderr # NilStream,
   tty |-> a.tty]

\* The exec request built by ExecPod for client c and arguments a.
BuildExecRequest(c, a) ==
  [verb |-> "POST",
   resource |-> "pods",
   namespace |-> c.Namespace,
   name |-> c.PodName,
   subresource |-> "exec",
   timeout |-> a.timeout,
   container |-> c.ContainerName,
   command |-> a.command,
   stdin |-> a.stdin # NilStream,
   stdout |-> a.stdout # NilStream,
   stderr |-> a.stderr # NilStream,
   tty |-> a.tty]

\* Faulty variant: stderr is attached to the stdout writer.
BuildStreamOptionsMerged(a) ==
  [Stdin |-> a.stdin, Stdout |-> a.stdout, Stderr |-> a.stdout, Tty |-> a.tty]

\* The StreamOptions ExecPod hands to the executor's Stream.
BuildStreamOptions(a) ==
  [Stdin |-> a.stdin, Stdout |-> a.stdout, Stderr |-> a.stderr, Tty |-> a.tty]

\* RoundTripperFor's error: TLSConfigFor's, else HTTPWrappersForConfig's.
RoundTripperFor(s) == IF s.tls # Nil THEN s.tls ELSE s.wrappers

\* NewSPDYExecutor's error: RoundTripperFor's, else the constructor's.
NewSPDYExecutor(s) ==
  IF RoundTripperFor(s) # Nil THEN RoundTripperFor(s) ELSE s.spdy

\* The package variable newExecutor, which delegates to NewSPDYExecutor.
newExecutor(s) == NewSPDYExecutor(s)

\* Faulty variant: a set-up failure is swallowed.
SetupResultSwallowed(err) == Nil

\* What ExecPod returns for newExecutor's error, when there is one.
SetupResult(err) ==
  IF err # Nil THEN Errorf(<<"failed to set up executor: ">>, err, <<>>) ELSE Nil

\* What ExecPod returns for Stream's error.
StreamResult(err) ==
  IF err # Nil THEN Errorf(<<"failed to exec command: ">>, err, <<>>) ELSE Nil

ExecArgs ==
  [command : Commands, stdin : Stdins, stdout : Stdouts, stderr : Stderrs,
   tty : BOOLEAN, timeout : Timeouts]

\* Faulty variant: ExecPod submits an access review of its own.
ExecPodBuildProbing(a) ==
  /\ pc = "idle"
  /\ op' = "ExecPod"
  /\ call' = a
  /\ execRequest' = BuildExecRequest(opt, a)
  /\ review' = BuildReview(opt)
  /\ nQuery' = 1
  /\ nSetup' = 0
  /\ nStream' = 0
  /\ response' = NoResponse
  /\ ret' = Nil
  /\ executor' = NoExecutor
  /\ setup' = NoSetup
  /\ streamOptions' = NoStreamOptions
  /\ streamErr' = Nil
  /\ streamDone' = FALSE
  /\ sessionEnds' = FALSE
  /\ elapsed' = 0
  /\ pc' = "newExecutor"
  /\ UNCHANGED <<opt, created, lastProbe>>

\* ExecPod up to the call of newExecutor: the request is built.
ExecPodBuild(a) ==
  /\ pc = "idle"
  /\ op' = "ExecPod"
  /\ call' = a
  /\ execRequest' = BuildExecRequest(opt, a)
  /\ review' = NoReview
  /\ nQuery' = 0
  /\ nSetup' = 0
  /\ nStream' = 0
  /\ response' = NoResponse
  /\ ret' = Nil
  /\ executor' = NoExecutor
  /\ setup' = NoSetup
  /\ streamOptions' = NoStreamOptions
  /\ streamErr' = Nil
  /\ streamDone' = FALSE
  /\ sessionEnds' = FALSE
  /\ elapsed' = 0
  /\ pc' = "newExecutor"
  /\ UNCHANGED <<opt, created, lastProbe>>

ExecPodCall == \E a \in ExecArgs : ExecPodBuild(a)

\* The outcomes of the three set-up steps.
SetupOutcomes ==
  [tls : {Nil, TLSErr}, wrappers : {Nil, WrapperErr}, spdy : {Nil, SPDYErr}]

\* Faulty variant: a failed set-up is tried again.
ExecPodSetupRetrying(s, ends) ==
  /\ pc = "newExecutor"
  /\ executor' = [config |-> opt.K8sConfig, method |-> "POST", url |-> execRequest]
  /\ setup' = s
  /\ nSetup' = nSetup + 1
  /\ IF newExecutor(s) # Nil
     THEN /\ IF nSetup + 1 < MaxAttempts
             THEN pc' = "newExecutor" /\ ret' = Nil
             ELSE pc' = "idle" /\ ret' = SetupResult(newExecutor(s))
          /\ UNCHANGED <<streamOptions, nStream, sessionEnds, elapsed>>
     ELSE /\ streamOptions' = BuildStreamOptions(call)
          /\ nStream' = nStream + 1
          /\ sessionEnds' = ends
          /\ elapsed' = 0
          /\ pc' = "Stream"
          /\ UNCHANGED ret
  /\ UNCHANGED <<opt, created, op, call, review, response, execRequest,
                 streamErr, streamDone, nQuery, lastProbe>>

\* ExecPod from the call of newExecutor to either the return on a set-up
\* failure or the invocation of Stream.
ExecPodSetupStep(s, ends) ==
  /\ pc = "newExecutor"
  /\ executor' = [config |-> opt.K8sConfig, method |-> "POST", url |-> execRequest]
  /\ setup' = s
  /\ nSetup' = nSetup + 1
  /\ IF newExecutor(s) # Nil
     THEN /\ ret' = SetupResult(newExecutor(s))
          /\ pc' = "idle"
          /\ UNCHANGED <<streamOptions, nStream, sessionEnds, elapsed>>
     ELSE /\ streamOptions' = BuildStreamOptions(call)
          /\ nStream' = nStream + 1
          /\ sessionEnds' = ends
          /\ elapsed' = 0
          /\ pc' = "Stream"
          /\ UNCHANGED ret
  /\ UNCHANGED <<opt, created, op, call, review, response, execRequest,
                 streamErr, streamDone, nQuery, lastProbe>>

ExecPodSetup == \E s \in SetupOutcomes, ends \in BOOLEAN : ExecPodSetupStep(s, ends)

\* Time passes while ExecPod is blocked in Stream.
Tick ==
  /\ pc = "Stream"
  /\ elapsed < MaxElapsed
  /\ elapsed' = elapsed + 1
  /\ UNCHANGED <<opt, created, pc, op, call, review, response, execRequest,
                 executor, setup, streamOptions, streamErr, streamDone,
                 sessionEnds, ret, nQuery, nSetup, nStream, lastProbe>>

\* Stream returns err and ExecPod returns what it makes of it.
StreamReturns(err) ==
  /\ pc = "Stream"
  /\ streamErr' = err
  /\ streamDone' = TRUE
  /\ ret' = StreamResult(err)
  /\ pc' = "idle"
  /\ UNCHANGED <<opt, created, op, call, review, response, execRequest,
                 executor, setup, streamOptions, sessionEnds, elapsed,
                 nQuery, nSetup, nStream, lastProbe>>

\* The remote command terminates, with or without an error.
StreamComplete ==
  /\ sessionEnds
  /\ \E err \in {Nil, StreamErr} : StreamReturns(err)

\* The connection breaks while the session runs.
StreamAbort == StreamReturns(ConnErr)

Next ==
  \/ CanExecCall
  \/ CanExecReturn
  \/ ExecPodCall
  \/ ExecPodSetup
  \/ Tick
  \/ StreamComplete
  \/ StreamAbort

Spec == Init /\ [][Next]_vars

\* The steps the program and its libraries are bound to take: a submitted
\* access review is answered within its 10 s context, the set-up is local
\* computation, time passes, and a remote command that terminates makes
\* Stream return.  A caller need not call, and a connection need not break.
Fairness ==
  /\ WF_vars(CanExecReturn)
  /\ WF_vars(ExecPodSetup)
  /\ WF_vars(Tick)
  /\ WF_vars(StreamComplete)

FairSpec == Spec /\ Fairness

\* ------------------------------------------------------------ properties
\* CanExec has returned (its result is in ret).
CanExecReturned == op = "CanExec" /\ pc = "idle"

\* ExecPod has returned (its result is in ret).
ExecPodReturned == op = "ExecPod" /\ pc = "idle"

\* C1: when the authorization query succeeds with Allowed = false, CanExec
\* returns a non-nil error that wraps deniedCreateExecErr; with a non-empty
\* Reason the error text contains the Reason, and with an empty Reason the
\* error is deniedCreateExecErr itself.
C1_DeniedYieldsDenialError ==
  (CanExecReturned /\ response.err = Nil /\ ~response.allowed) =>
    /\ ret # Nil
    /\ Is(ret, deniedCreateExecErr)
    /\ response.reason # "" =>
         /\ Contains(ret, response.reason)
         /\ Contains(ret, deniedCreateExecErr.msg[1])
    /\ response.reason = "" => ret = deniedCreateExecErr

C1_Witness ==
  /\ CanExecReturned
  /\ response.err = Nil
  /\ ~response.allowed
  /\ response.reason # ""
  /\ ret # deniedCreateExecErr

\* C2: CanExec returns nil exactly when the authorization query succeeded
\* and the response has Allowed = true.
C2_NilIffAllowed ==
  CanExecReturned => (ret = Nil <=> (response.err = Nil /\ response.allowed))

C2_Witness ==
  /\ CanExecReturned
  /\ response.err = Nil
  /\ response.allowed
  /\ response.reason # ""
  /\ ret = Nil

\* C3: the exec request's Stdin, Stdout, Stderr flags say whether the
\* caller's streams are present and its TTY flag is the caller's tty; the
\* StreamOptions handed to Stream carry the same streams and tty, so flags
\* and attached streams agree.
C3_FlagsAgreeWithStreams ==
  /\ op = "ExecPod" =>
       /\ execRequest.stdin = (call.stdin # NilStream)
       /\ execRequest.stdout = (call.stdout # NilStream)
       /\ execRequest.stderr = (call.stderr # NilStream)
       /\ execRequest.tty = call.tty
  /\ (op = "ExecPod" /\ nStream >= 1) =>
       /\ streamOptions.Stdin = call.stdin
       /\ streamOptions.Stdout = call.stdout
       /\ streamOptions.Stderr = call.stderr
       /\ streamOptions.Tty = call.tty
       /\ execRequest.stdin = (streamOptions.Stdin # NilStream)
       /\ execRequest.stdout = (streamOptions.Stdout # NilStream)
       /\ execRequest.stderr = (streamOptions.Stderr # NilStream)
       /\ execRequest.tty = streamOptions.Tty

C3_Witness ==
  /\ op = "ExecPod"
  /\ nStream = 1
  /\ call.stdin = NilStream
  /\ call.stdout # NilStream
  /\ call.stderr = NilStream
  /\ call.tty

\* C4 as stated: an exec request (executor set-up, Stream) is attempted only
\* after a CanExec that returned no error.
C4_ExecOnlyAfterProbe ==
  pc \in {"newExecutor", "Stream"} => lastProbe = "ok"

\* C4 as amended: probe and exec are separate operations.  ExecPod submits
\* no access review, and CanExec performs no executor set-up and no Stream.
C4_ProbeAndExecSeparate ==
  /\ op = "ExecPod" => (nQuery = 0 /\ review = NoReview)
  /\ op = "CanExec" => (nSetup = 0 /\ nStream = 0 /\ execRequest = NoRequest)

\* An exec session is running although the latest probe failed.
C4_Witness ==
  /\ pc = "Stream"
  /\ nStream = 1
  /\ lastProbe = "failed"

\* C5: no retry.  A call submits at most one access review, performs at
\* most one executor set-up and at most one Stream invocation, and a failed
\* step ends the call with an error.
C5_NoRetry ==
  /\ nQuery <= 1
  /\ nSetup <= 1
  /\ nStream <= 1
  /\ (op = "CanExec" /\ response.err # Nil) => (pc = "idle" /\ ret # Nil)
  /\ (op = "ExecPod" /\ nSetup >= 1 /\ newExecutor(setup) # Nil) =>
       (pc = "idle" /\ ret # Nil /\ nStream = 0)
  /\ (op = "ExecPod" /\ streamDone /\ streamErr # Nil) =>
       (pc = "idle" /\ ret # Nil)

C5_Witness ==
  /\ ExecPodReturned
  /\ nSetup = 1
  /\ newExecutor(setup) # Nil
  /\ ret # Nil

\* C6: ExecPod forwards the caller's timeout to the exec request unchanged,
\* never returns before Stream has returned, and eventually returns once
\* the supplied timeout has elapsed.
C6_TimeoutEndsSession ==
  /\ [](op = "ExecPod" => execRequest.timeout = call.timeout)
  /\ []((ExecPodReturned /\ nStream >= 1) => streamDone)
  /\ (pc = "Stream" /\ elapsed >= call.timeout) ~> (pc = "idle")

\* C7: the exec request targets the client's Namespace, PodName and
\* ContainerName and the caller's command, the executor is set up with the
\* client's K8sConfig, and the client's ClientOpt keeps the value it had
\* when NewClient created the client.
C7_ConfigPassedThrough ==
  /\ opt = created
  /\ op = "ExecPod" =>
       /\ execRequest.namespace = opt.Namespace
       /\ execRequest.name = opt.PodName
       /\ execRequest.container = opt.ContainerName
       /\ execRequest.command = call.command
       /\ execRequest.resource = "pods"
       /\ execRequest.subresource = "exec"
  /\ (op = "ExecPod" /\ nSetup >= 1) =>
       /\ executor.config = opt.K8sConfig
       /\ executor.url = execRequest

C7_Witness ==
  /\ ExecPodReturned
  /\ nStream = 1
  /\ opt.PodName = "pod2"
  /\ opt.Namespace = "ns2"
  /\ call.command = <<"sh", "-c">>

\* C8: the access review CanExec submits asks about verb create on resource
\* pods, subresource exec, in the client's Namespace, and names the client's
\* PodName.
C8_ReviewNamesPod ==
  (op = "CanExec" /\ nQuery >= 1) =>
    /\ review.Verb = "create"
    /\ review.Resource = "pods"
    /\ review.Subresource = "exec"
    /\ review.Namespace = opt.Namespace
    /\ review.Name = opt.PodName

\* C9: a set-up failure (a TLS failure included) makes ExecPod return the
\* set-up error wrapped with "failed to set up executor" without invoking
\* Stream; a Stream failure after a successful set-up makes it return the
\* stream error wrapped with "failed to exec command"; it returns nil
\* exactly when both succeeded.
C9_ErrorsFollowStepOrder ==
  ExecPodReturned =>
    /\ setup.tls # Nil => newExecutor(setup) = setup.tls
    /\ newExecutor(setup) # Nil =>
         /\ ret = Errorf(<<"failed to set up executor: ">>, newExecutor(setup), <<>>)
         /\ Is(ret, newExecutor(setup))
         /\ nStream = 0
         /\ ~streamDone
    /\ (newExecutor(setup) = Nil /\ streamErr # Nil) =>
         /\ ret = Errorf(<<"failed to exec command: ">>, streamErr, <<>>)
         /\ Is(ret, streamErr)
    /\ ret = Nil <=>
         (newExecutor(setup) = Nil /\ nStream = 1 /\ streamDone /\ streamErr = Nil)

C9_Witness ==
  /\ ExecPodReturned
  /\ setup.tls # Nil
  /\ setup.spdy = Nil
  /\ ret # Nil

\* C10: when the authorization query fails, CanExec returns the library's
\* error itself, whatever Allowed flag and Reason the response carries.
C10_QueryErrorVerbatim ==
  (CanExecReturned /\ response.err # Nil) => ret = response.err

C10_Witness ==
  /\ CanExecReturned
  /\ response.err # Nil
  /\ ~response.allowed
  /\ response.reason # ""

====
